---- MODULE Spec2Model ----
(***************************************************************************)
(* Pucauto (src/pucauto.py): the trade-matching and bundle-dispatch loop.  *)
(* One polling cycle is find_trades: the trades page is read, the rows are *)
(* aggregated per member (build_trades_dict), the highest value bundle is  *)
(* sent card by card (complete_trades / send_card), the recipient is       *)
(* tracked in the unshipped dictionary, and the bundles of members with    *)
(* unshipped cards are sent as add-ons.                                    *)
(*                                                                         *)
(* The program is Python 2 (dict.iteritems, tuple parameters in lambda): a *)
(* dict iterates in hash order, not in insertion order.  hash_order is     *)
(* that order on the member ids, fixed for the process and unknown.        *)
(*                                                                         *)
(* Time is a clock of ticks, a tick being longer than any single wait of   *)
(* the program: the program's steps take no time and Tick lets a tick pass *)
(* while the program waits (sends, the sleep between cycles).  Spec is the *)
(* program within one tick on pages of up to MaxRows well-formed rows;     *)
(* SchedSpec is the program over MaxTime ticks on pages of up to           *)
(* MaxSchedRows rows, MaxDefects of them malformed.                        *)
(***************************************************************************)
EXTENDS Integers, Sequences, FiniteSets, TLC

\* ------------------------------------------------------------------ bounds
MaxRows == 3                      \* rows of one page snapshot
MaxSchedRows == 2                 \* rows of one page snapshot under SchedSpec
MaxDefects == 1                   \* malformed rows of one page under SchedSpec
MaxTime == 3                      \* ticks of the clock
min_value == 2                    \* CONFIG["min_value"]
hours_to_run_ticks == 2           \* CONFIG["hours_to_run"] when set, in ticks
unshipped_interval == 2           \* reload_unshipped_interval_m, in ticks
addon_check_interval == 1         \* minutes_between_add_ons_check, in ticks

Traders == {"t1", "t2"}           \* member ids (/profiles/show/<id>)
Names == {"n1"}                   \* member profile names
Points == {min_value - 1, min_value}   \* member points, below / at the floor
Values == {1, 2}                  \* card values
PageStates == {"confirm", "reason", "blank"}
None == "None"

\* A row of the trades table (tr id="uc_..."); the card's href is the row's
\* position on the page, which identifies the card.
RawRow == [member_id : Traders, member_points : Points,
           member_name : Names, card_value : Values]
Snapshots == UNION {[1..n -> RawRow] : n \in 0..MaxRows}

\* A page of /trades: its well-formed rows, and how many further rows lack a
\* cell or a link build_trades_dict reads.
Pages == [rows : Snapshots, defects : {0}]

\* The pages under SchedSpec: every card is worth the floor, so that one row
\* makes a bundle worth sending.
SchedRow == {r \in RawRow : r.card_value = min_value}
SchedPages == [rows : UNION {[1..n -> SchedRow] : n \in 0..MaxSchedRows},
               defects : 0..MaxDefects]

\* The unshipped dictionary: member id -> profile name.
Registries == UNION {[S -> Names] : S \in SUBSET Traders}

\* /trades/active: whether the filter input is there, and the a.trader links.
ActivePages ==
  {[present |-> TRUE, traders |-> r] : r \in Registries}
    \cup {[present |-> FALSE, traders |-> <<>>]}

\* The orders in which a dict may iterate over the member ids.
DictOrders == {o \in [1..Cardinality(Traders) -> Traders] :
                 \A i, j \in DOMAIN o : i # j => o[i] # o[j]}

VARIABLES
  debug,          \* CONFIG.get("debug")
  hash_order,     \* iteration order of a dict keyed by member id
  unshipped,      \* the unshipped dictionary (main's local, passed by reference)
  pc,             \* "loop" | "reload" | "find" | "primary" | "addons" | "sleep"
                  \* | "terminated" | "crashed"
  full_load,      \* this cycle called load_trade_list(True)
  rows,           \* DRIVER.page_source of this cycle
  trades,         \* find_trades' local: member id -> bundle
  highest,        \* find_trades' local highest_value_bundle (its key) or None
  add_ons,        \* the dict find_add_on_bundles returned (empty before)
  pending,        \* keys of add_ons still to iterate
  stack,          \* the running complete_trades call's frame, if any
  unshipped0,     \* history: unshipped when the cycle started
  parsed,         \* history: what build_trades_dict returned this cycle
  attempts,       \* history: send_card calls of this cycle
  calls,          \* history: DRIVER calls made by send_card this cycle
  returns,        \* history: complete_trades calls returned this cycle
  hours_to_run,   \* CONFIG.get("hours_to_run") in ticks, 0 when not set
  find_add_ons,   \* CONFIG.get("find_add_ons")
  now,            \* datetime.now()
  START_TIME,
  LAST_ADD_ON_CHECK,
  LAST_UNSHIPPED_CHECK,
  driver,         \* DRIVER: "open" | "closed"
  raised,         \* where the exception that ended the process was raised
  defects,        \* history: malformed rows of this cycle's page
  active_page,    \* history: /trades/active as load_unshipped_traders saw it
  events          \* history: the steps of this cycle, in order

vars == <<debug, hash_order, unshipped, pc, full_load, rows, trades, highest,
          add_ons, pending, stack, unshipped0, parsed, attempts, calls, returns,
          hours_to_run, find_add_ons, now, START_TIME, LAST_ADD_ON_CHECK,
          LAST_UNSHIPPED_CHECK, driver, raised, defects, active_page, events>>

config == <<debug, hash_order, hours_to_run, find_add_ons>>
timers == <<START_TIME, LAST_ADD_ON_CHECK, LAST_UNSHIPPED_CHECK>>

\* ------------------------------------------------------- build_trades_dict
Card(i, row) == [href |-> i, value |-> row.card_value]

\* Mutant of Skipped: the unshipped dictionary is not consulted.
Skipped_PointsOnly(row, unsh) == row.member_points < min_value

Skipped(row, unsh) ==
  row.member_id \notin DOMAIN unsh /\ row.member_points < min_value

\* Mutant of AddRow: a further card of a member is appended but its value
\* replaces the bundle's value instead of adding to it.
AddRow_NoSum(t, i, row) ==
  IF row.member_id \in DOMAIN t
  THEN [t EXCEPT ![row.member_id].cards = Append(@, Card(i, row)),
                 ![row.member_id].value = row.card_value]
  ELSE t @@ (row.member_id :>
               [cards |-> <<Card(i, row)>>, name |-> row.member_name,
                points |-> row.member_points, value |-> row.card_value])

AddRow(t, i, row) ==
  IF row.member_id \in DOMAIN t
  THEN [t EXCEPT ![row.member_id].cards = Append(@, Card(i, row)),
                 ![row.member_id].value = @ + row.card_value]
  ELSE t @@ (row.member_id :>
               [cards |-> <<Card(i, row)>>, name |-> row.member_name,
                points |-> row.member_points, value |-> row.card_value])

RECURSIVE BuildFrom(_, _, _, _)
BuildFrom(rs, i, unsh, t) ==
  IF i > Len(rs) THEN t
  ELSE IF Skipped(rs[i], unsh) THEN BuildFrom(rs, i + 1, unsh, t)
  ELSE BuildFrom(rs, i + 1, unsh, AddRow(t, i, rs[i]))

build_trades_dict(rs, unsh) == BuildFrom(rs, 1, unsh, <<>>)

\* ------------------------------------------------ find_highest_value_bundle
\* six.iteritems(d): the keys of d in the dict's iteration order.
IterKeys(d) == SelectSeq(hash_order, LAMBDA k : k \in DOMAIN d)

\* Mutant of MaxFrom: a later item of equal value replaces the best so far.
RECURSIVE MaxFrom_LastWins(_, _, _, _)
MaxFrom_LastWins(ks, i, d, best) ==
  IF i > Len(ks) THEN best
  ELSE IF d[ks[i]].value >= d[best].value
       THEN MaxFrom_LastWins(ks, i + 1, d, ks[i])
       ELSE MaxFrom_LastWins(ks, i + 1, d, best)

\* max(iterable, key): the first item whose key no later item exceeds strictly.
RECURSIVE MaxFrom(_, _, _, _)
MaxFrom(ks, i, d, best) ==
  IF i > Len(ks) THEN best
  ELSE IF d[ks[i]].value > d[best].value THEN MaxFrom(ks, i + 1, d, ks[i])
  ELSE MaxFrom(ks, i + 1, d, best)

MaxByValue(d) == LET ks == IterKeys(d) IN MaxFrom(ks, 2, d, ks[1])

\* Mutant of find_highest_value_bundle: the min_value test is left out.
find_highest_value_bundle_NoGate(d) ==
  IF Cardinality(DOMAIN d) = 0 THEN None ELSE MaxByValue(d)

find_highest_value_bundle(d) ==
  IF Cardinality(DOMAIN d) = 0 THEN None
  ELSE LET k == MaxByValue(d) IN
       IF d[k].value >= min_value THEN k ELSE None

\* ---------------------------------------------------------- complete_trades
\* Mutant of InsertCard: a card goes before the cards of its own value (the
\* order of an ascending sort reversed).
InsertCard_TiesReversed(s, c) ==
  LET n == Cardinality({j \in 1..Len(s) : s[j].value > c.value})
  IN  SubSeq(s, 1, n) \o <<c>> \o SubSeq(s, n + 1, Len(s))

\* sorted(cards, key=value, reverse=True): stable, highest value first.
InsertCard(s, c) ==
  LET n == Cardinality({j \in 1..Len(s) : s[j].value >= c.value})
  IN  SubSeq(s, 1, n) \o <<c>> \o SubSeq(s, n + 1, Len(s))

RECURSIVE SortFrom(_, _, _)
SortFrom(cards, i, s) ==
  IF i > Len(cards) THEN s ELSE SortFrom(cards, i + 1, InsertCard(s, cards[i]))

sorted_cards(cards) == SortFrom(cards, 1, <<>>)

\* The frame of a complete_trades(bundle, add_on) call at its loop's head.
Call(id, bundle, add_on) ==
  [id |-> id, add_on |-> add_on, sorted_cards |-> sorted_cards(bundle.cards),
   i |-> 1, success_count |-> 0, success_value |-> 0]

\* ------------------------------------------------------ find_add_on_bundles
Restrict(d, S) == [k \in (DOMAIN d) \cap S |-> d[k]]

\* Mutant of find_add_on_bundles: bundles below min_value are left out.
find_add_on_bundles_AboveFloor(t, unsh) ==
  Restrict(t, {k \in DOMAIN unsh \cap DOMAIN t : t[k].value >= min_value})

find_add_on_bundles(t, unsh) == Restrict(t, DOMAIN unsh)

\* Mutant of Pop: the bundle sent is left in the trades dictionary.
Pop_Keep(d, k) == d

Pop(d, k) == [j \in (DOMAIN d) \ {k} |-> d[j]]

Put(d, k, v) == [j \in (DOMAIN d) \cup {k} |-> IF j = k THEN v ELSE d[j]]

\* Mutant of TrackRecipient: the recipient is tracked whatever was sent.
TrackRecipient_Always(unsh, success_count, id, name) == Put(unsh, id, name)

\* find_trades: the recipient of the highest value bundle is tracked in
\* unshipped when complete_trades returned at least one card sent.
TrackRecipient(unsh, success_count, id, name) ==
  IF success_count >= 1 THEN Put(unsh, id, name) ELSE unsh

\* ------------------------------------------------------------- the timers
\* Mutant of check_runtime: the hours run are not compared.
check_runtime_Forever == TRUE

check_runtime ==
  IF hours_to_run # 0 THEN now - START_TIME < hours_to_run ELSE TRUE

full_addon_check_due(interval_minutes) ==
  IF find_add_ons THEN now - LAST_ADD_ON_CHECK >= interval_minutes ELSE FALSE

unshipped_reload_due(interval_minutes) ==
  now - LAST_UNSHIPPED_CHECK >= interval_minutes

\* Mutant of Listed: the traders found are added to those the dictionary
\* held.
Listed_Merge(old, traders) == traders @@ old

\* The dictionary load_unshipped_traders fills from the a.trader links: it
\* starts from dict(), not from the dictionary main holds.
Listed(old, traders) == traders

\* Mutant of load_unshipped_traders: without the filter input the dictionary
\* main holds is returned.
load_unshipped_traders_KeepOld(old, page) ==
  IF page.present THEN Listed(old, page.traders) ELSE old

\* load_unshipped_traders: a new dictionary of the traders listed, empty when
\* the filter input is not on the page.
load_unshipped_traders(old, page) ==
  IF page.present THEN Listed(old, page.traders) ELSE <<>>

\* LAST_UNSHIPPED_CHECK after load_unshipped_traders: the early return for a
\* missing filter input comes before the assignment.
UnshippedCheckTime(page) ==
  IF page.present THEN now ELSE LAST_UNSHIPPED_CHECK

\* Mutant of FullLoad: the unshipped dictionary's size is not looked at.
FullLoad_AnyRegistry(full_addon_check, unsh) == full_addon_check

\* find_trades: whether load_trade_list(True) is called.
FullLoad(full_addon_check, unsh) ==
  full_addon_check /\ Cardinality(DOMAIN unsh) > 0

\* Mutant of AddOnCheckTime: the timer is set whenever the check was due.
AddOnCheckTime_WhenDue(full_addon_check, unsh) ==
  IF full_addon_check THEN now ELSE LAST_ADD_ON_CHECK

\* LAST_ADD_ON_CHECK after find_trades: set in the branch that loads fully.
AddOnCheckTime(full_addon_check, unsh) ==
  IF FullLoad(full_addon_check, unsh) THEN now ELSE LAST_ADD_ON_CHECK

\* Mutant of AfterCheck: the reload of unshipped is left out of the loop.
AfterCheck_NoReload(due) == "find"

\* main's loop body after check_runtime: the reload when due, then find_trades.
AfterCheck(due) == IF due THEN "reload" ELSE "find"

\* -------------------------------------------------------------------- Init
\* A cycle has not begun: find_trades' locals and the history are empty.
NoCycle ==
  /\ full_load = FALSE
  /\ rows = <<>>
  /\ trades = <<>>
  /\ highest = None
  /\ add_ons = <<>>
  /\ pending = <<>>
  /\ stack = <<>>
  /\ unshipped0 = unshipped
  /\ parsed = <<>>
  /\ attempts = <<>>
  /\ calls = <<>>
  /\ returns = <<>>
  /\ defects = 0
  /\ active_page = [present |-> TRUE, traders |-> unshipped]
  /\ events = <<>>
  /\ driver = "open"
  /\ raised = ""

\* The state when main's loop is first entered: load_unshipped_traders has
\* returned some dictionary, nothing of a cycle exists yet.  The module was
\* loaded at tick 0, the loop is entered one tick later, add-ons are looked
\* for, no hours to run are set.
Init ==
  /\ debug \in BOOLEAN
  /\ hash_order \in DictOrders
  /\ unshipped \in Registries
  /\ hours_to_run = 0
  /\ find_add_ons = TRUE
  /\ START_TIME = 0
  /\ LAST_ADD_ON_CHECK = 0
  /\ now = 1
  /\ LAST_UNSHIPPED_CHECK = 1
  /\ pc = "loop"
  /\ NoCycle

\* The same with every configuration of the timers: hours to run set or not,
\* add-ons looked for or not, the loop entered at tick 0 or 1, and unshipped
\* loaded at some tick up to then (tick 0 also when the filter input was
\* missing and the dictionary is empty).
SchedInit ==
  /\ debug = FALSE
  /\ hash_order \in DictOrders
  /\ unshipped \in Registries
  /\ hours_to_run \in {0, hours_to_run_ticks}
  /\ find_add_ons \in BOOLEAN
  /\ START_TIME = 0
  /\ LAST_ADD_ON_CHECK = 0
  /\ now \in 0..1
  /\ LAST_UNSHIPPED_CHECK \in 0..now
  /\ pc = "loop"
  /\ NoCycle

\* ----------------------------------------------------------------- actions
\* The head of main's loop: check_runtime, then whether unshipped is to be
\* reloaded; when the hours are run the loop ends and DRIVER.close() follows.
CheckRuntime ==
  /\ pc = "loop"
  /\ IF check_runtime
     THEN /\ pc' = AfterCheck(unshipped_reload_due(unshipped_interval))
          /\ events' = <<IF unshipped_reload_due(unshipped_interval)
                         THEN "reload_due" ELSE "reload_not_due">>
          /\ driver' = driver
     ELSE /\ pc' = "terminated"
          /\ events' = events
          /\ driver' = "closed"
  /\ UNCHANGED <<config, timers, now, unshipped, full_load, rows, trades,
                 highest, add_ons, pending, stack, unshipped0, parsed, attempts,
                 calls, returns, raised, defects, active_page>>

\* unshipped = load_unshipped_traders() in main's loop.
LoadUnshippedTraders ==
  /\ pc = "reload"
  /\ \E page \in ActivePages :
       /\ unshipped' = load_unshipped_traders(unshipped, page)
       /\ LAST_UNSHIPPED_CHECK' = UnshippedCheckTime(page)
       /\ active_page' = page
  /\ events' = Append(events, "reload")
  /\ pc' = "find"
  /\ UNCHANGED <<config, now, START_TIME, LAST_ADD_ON_CHECK, full_load, rows,
                 trades, highest, add_ons, pending, stack, unshipped0, parsed,
                 attempts, calls, returns, driver, raised, defects>>

\* The steps the head of the add-on loop adds to the cycle's.
AddOnEvents(pend) ==
  <<"addons_selected">> \o (IF Len(pend) > 0 THEN <<"addon_start">> ELSE <<>>)

\* The head of the add-on loop (for bundle in ...iteritems()): the next
\* bundle goes to complete_trades(bundle, True); with none left find_trades
\* returns and main sleeps.
NextAddOn(pend, ao) ==
  IF Len(pend) > 0
  THEN /\ stack' = <<Call(Head(pend), ao[Head(pend)], TRUE)>>
       /\ pending' = Tail(pend)
       /\ pc' = "addons"
  ELSE /\ stack' = <<>>
       /\ pending' = <<>>
       /\ pc' = "sleep"

\* The dict comprehension of find_add_on_bundles is built from the trades
\* left and its iteration starts.
EnterAddOns(t, unsh) ==
  /\ add_ons' = find_add_on_bundles(t, unsh)
  /\ NextAddOn(IterKeys(find_add_on_bundles(t, unsh)), find_add_on_bundles(t, unsh))

\* find_trades up to the call of complete_trades for the highest value bundle:
\* the page is loaded (fully or not), parsed, and the bundle is chosen.  A row
\* without a cell or link that build_trades_dict reads makes row.find return
\* None and the attribute access on it raise.
FindTradesOn(pages) ==
  /\ pc = "find"
  /\ \E page \in pages :
       LET full_addon_check == full_addon_check_due(addon_check_interval)
           t == build_trades_dict(page.rows, unshipped)
           h == find_highest_value_bundle(t)
       IN  /\ full_load' = FullLoad(full_addon_check, unshipped)
           /\ LAST_ADD_ON_CHECK' = AddOnCheckTime(full_addon_check, unshipped)
           /\ rows' = page.rows
           /\ defects' = page.defects
           /\ unshipped0' = unshipped
           /\ attempts' = <<>>
           /\ calls' = <<>>
           /\ returns' = <<>>
           /\ IF page.defects > 0
              THEN /\ pc' = "crashed"
                   /\ raised' = "build_trades_dict"
                   /\ events' = Append(events, "load")
                   /\ UNCHANGED <<trades, parsed, highest, stack, add_ons,
                                  pending>>
              ELSE /\ raised' = raised
                   /\ trades' = t
                   /\ parsed' = t
                   /\ highest' = h
                   /\ IF h # None
                      THEN /\ stack' = <<Call(h, t[h], h \in DOMAIN unshipped)>>
                           /\ pc' = "primary"
                           /\ add_ons' = <<>>
                           /\ pending' = <<>>
                           /\ events' = events \o <<"load", "parse", "primary_start">>
                      ELSE /\ EnterAddOns(t, unshipped)
                           /\ events' = events \o <<"load", "parse">>
                                \o AddOnEvents(IterKeys(find_add_on_bundles(t, unshipped)))
  /\ UNCHANGED <<config, now, START_TIME, LAST_UNSHIPPED_CHECK, unshipped,
                 driver, active_page>>

FindTrades == FindTradesOn(Pages)

SchedFindTrades == FindTradesOn(SchedPages)

\* Mutant of SendCalls: the debug flag is not looked at before the browser
\* is driven.
SendCalls_NoDebug(card, page) ==
  <<[op |-> "get_sendcard", href |-> card.href],
    [op |-> "find_confirm", href |-> card.href]>>
  \o (IF page = "confirm"
      THEN <<[op |-> "get_confirm", href |-> card.href]>>
      ELSE <<[op |-> "find_h3", href |-> card.href]>>)

\* send_card: what it does to the page collaborator and what it returns, for
\* the page the browser shows after DRIVER.get(card["href"]).
SendCalls(card, page) ==
  IF debug THEN <<>>
  ELSE <<[op |-> "get_sendcard", href |-> card.href],
         [op |-> "find_confirm", href |-> card.href]>>
       \o (IF page = "confirm"
           THEN <<[op |-> "get_confirm", href |-> card.href]>>
           ELSE <<[op |-> "find_h3", href |-> card.href]>>)

SendResult(page) ==
  IF debug THEN "False"
  ELSE IF page = "confirm" THEN "True"
  ELSE IF page = "reason" THEN "False"
  ELSE "raise"

\* One iteration of complete_trades' loop over sorted_cards.
SendCard ==
  /\ pc \in {"primary", "addons"}
  /\ Len(stack) > 0
  /\ stack[1].i <= Len(stack[1].sorted_cards)
  /\ \E page \in PageStates :
       LET cur == stack[1]
           card == cur.sorted_cards[cur.i]
           res == SendResult(page)
       IN  /\ attempts' = Append(attempts,
                [id |-> cur.id, add_on |-> cur.add_on, href |-> card.href,
                 value |-> card.value, result |-> res])
           /\ calls' = calls \o SendCalls(card, page)
           /\ IF res = "raise"
              THEN /\ pc' = "crashed"
                   /\ raised' = "send_card"
                   /\ stack' = stack
              ELSE /\ pc' = pc
                   /\ raised' = raised
                   /\ stack' = <<[cur EXCEPT
                        !.i = @ + 1,
                        !.success_count = IF res = "True" THEN @ + 1 ELSE @,
                        !.success_value = IF res = "True" THEN @ + card.value ELSE @]>>
  /\ UNCHANGED <<config, timers, now, unshipped, full_load, rows, trades,
                 highest, add_ons, pending, unshipped0, parsed, returns, driver,
                 defects, active_page, events>>

Returned(c) ==
  [id |-> c.id, add_on |-> c.add_on, success_count |-> c.success_count,
   success_value |-> c.success_value, cards |-> c.sorted_cards]

\* complete_trades(highest_value_bundle, ...) returns: the recipient is
\* tracked when a card was sent, the bundle is popped, the add-ons are found.
PrimaryDone ==
  /\ pc = "primary"
  /\ Len(stack) > 0
  /\ stack[1].i > Len(stack[1].sorted_cards)
  /\ LET cur == stack[1]
         unsh == TrackRecipient(unshipped, cur.success_count, highest,
                                trades[highest].name)
         t == Pop(trades, highest)
     IN  /\ unshipped' = unsh
         /\ trades' = t
         /\ returns' = Append(returns, Returned(cur))
         /\ EnterAddOns(t, unsh)
         /\ events' = Append(events, "primary_done")
              \o AddOnEvents(IterKeys(find_add_on_bundles(t, unsh)))
  /\ UNCHANGED <<config, timers, now, full_load, rows, highest, unshipped0,
                 parsed, attempts, calls, driver, raised, defects, active_page>>

\* complete_trades(bundle, True) returns; its count is dropped and the loop
\* goes on.
AddOnDone ==
  /\ pc = "addons"
  /\ Len(stack) > 0
  /\ stack[1].i > Len(stack[1].sorted_cards)
  /\ returns' = Append(returns, Returned(stack[1]))
  /\ NextAddOn(pending, add_ons)
  /\ events' = Append(events, "addon_done")
       \o (IF Len(pending) > 0 THEN <<"addon_start">> ELSE <<>>)
  /\ UNCHANGED <<config, timers, now, unshipped, full_load, rows, trades,
                 highest, add_ons, unshipped0, parsed, attempts, calls, driver,
                 raised, defects, active_page>>

\* time.sleep(refresh_interval) is over: back to the head of main's loop.
\* find_trades' locals are gone, and the history of the cycle is dropped.
Sleep ==
  /\ pc = "sleep"
  /\ pc' = "loop"
  /\ full_load' = FALSE
  /\ rows' = <<>>
  /\ trades' = <<>>
  /\ highest' = None
  /\ add_ons' = <<>>
  /\ unshipped0' = unshipped
  /\ parsed' = <<>>
  /\ attempts' = <<>>
  /\ calls' = <<>>
  /\ returns' = <<>>
  /\ defects' = 0
  /\ active_page' = [present |-> TRUE, traders |-> unshipped]
  /\ events' = <<>>
  /\ UNCHANGED <<config, timers, now, unshipped, pending, stack, driver, raised>>

\* A tick of the clock passes while the process is alive.
Tick ==
  /\ pc \notin {"terminated", "crashed"}
  /\ now < MaxTime
  /\ now' = now + 1
  /\ UNCHANGED <<config, timers, unshipped, pc, full_load, rows, trades,
                 highest, add_ons, pending, stack, unshipped0, parsed, attempts,
                 calls, returns, driver, raised, defects, active_page, events>>

\* One tick of the process on pages of well-formed rows: unshipped is not
\* yet due for a reload and no hours to run are set.
Next ==
  \/ CheckRuntime
  \/ FindTrades
  \/ SendCard
  \/ PrimaryDone
  \/ AddOnDone
  \/ Sleep

Spec == Init /\ [][Next]_vars

\* The steps of the process itself under SchedSpec.
Program ==
  \/ CheckRuntime
  \/ LoadUnshippedTraders
  \/ SchedFindTrades
  \/ SendCard
  \/ PrimaryDone
  \/ AddOnDone
  \/ Sleep

SchedNext == Program \/ Tick

SchedSpec == SchedInit /\ [][SchedNext]_vars

\* The process takes its next step (every call it makes returns or raises),
\* and the clock goes on.
LiveSpec == SchedSpec /\ WF_vars(Program) /\ WF_vars(Tick)

\* ================================================================= claims
\* The complete_trades call for the highest value bundle has returned.
PrimaryReturned == highest # None /\ Len(returns) >= 1

\* The add-on loop of this cycle has been entered.
AddOnPhase ==
  \/ pc \in {"addons", "sleep"}
  \/ pc = "crashed" /\ (highest = None \/ Len(returns) >= 1)

\* The complete_trades calls of the add-on loop that have returned.
AddOnReturns == IF highest # None /\ Len(returns) >= 1 THEN Tail(returns) ELSE returns

RECURSIVE SumValues(_)
SumValues(cards) ==
  IF Len(cards) = 0 THEN 0 ELSE cards[1].value + SumValues(Tail(cards))

\* ---- C1 ----------------------------------------------------------------
\* C1: in a cycle the unshipped registry changes only by the entry of the
\* highest value bundle's member, and only when that bundle's dispatch
\* returned a success count of at least 1; otherwise it is the registry the
\* cycle started with, whatever the add-on dispatches did.
C1_RegistryUpdate ==
  unshipped = IF PrimaryReturned /\ returns[1].success_count >= 1
              THEN Put(unshipped0, highest, parsed[highest].name)
              ELSE unshipped0

\* A cycle is over in which the primary sent a card to a member the registry
\* did not hold, who is now registered, and an add-on dispatch sent a card too.
C1_Witness_Registered ==
  /\ pc = "sleep"
  /\ PrimaryReturned
  /\ returns[1].success_count >= 1
  /\ highest \notin DOMAIN unshipped0
  /\ highest \in DOMAIN unshipped
  /\ \E k \in 2..Len(returns) : returns[k].success_count >= 1

\* ---- C2 ----------------------------------------------------------------
\* C2: the member whose bundle was dispatched as primary has no bundle in the
\* add-on set of the same cycle, and no card is sent twice in a cycle.
C2_NoDoubleSend ==
  /\ highest \notin DOMAIN add_ons
  /\ \A k \in 1..Len(pending) : pending[k] # highest
  /\ \A i, j \in 1..Len(attempts) : i # j => attempts[i].href # attempts[j].href

\* The primary's member was in the registry already, its dispatch is over and
\* the add-on loop has sent another member's bundle.
C2_Witness_PrimaryInRegistry ==
  /\ pc = "sleep"
  /\ PrimaryReturned
  /\ highest \in DOMAIN unshipped0
  /\ Len(returns) >= 2

\* ---- C3 ----------------------------------------------------------------
\* C3: complete_trades attempts every card of its bundle, a card that fails
\* does not stop the cards after it, and the count and value it returns are
\* those of the cards whose confirm button was there.
C3_EveryCardAttempted ==
  /\ \A k \in 1..Len(returns) :
       LET r == returns[k]
           mine == SelectSeq(attempts, LAMBDA a : a.id = r.id)
           sent == SelectSeq(mine, LAMBDA a : a.result = "True")
       IN  /\ Len(mine) = Len(r.cards)
           /\ r.success_count = Len(sent)
           /\ r.success_value = SumValues(sent)
  /\ pc # "crashed"

\* ---- C4 ----------------------------------------------------------------
\* C4: with debug set, send_card never drives the browser (no send page, no
\* confirm page), and every dispatch returns a success count of 0.
C4_DryRun ==
  debug =>
    /\ calls = <<>>
    /\ \A k \in 1..Len(returns) : returns[k].success_count = 0
    /\ \A k \in 1..Len(attempts) : attempts[k].result = "False"
    /\ Len(stack) > 0 => stack[1].success_count = 0

\* With debug set a cycle is over in which a primary bundle and an add-on
\* bundle went through complete_trades, three cards in all.
C4_Witness_DryCycle ==
  /\ debug
  /\ pc = "sleep"
  /\ PrimaryReturned
  /\ Len(returns) >= 2
  /\ Len(attempts) = MaxRows
\* ---- C5 ----------------------------------------------------------------
RowsOf(t) == {i \in 1..Len(rows) : rows[i].member_id = t}

\* C5: the parsed table holds a bundle of a member only if the member's
\* points reach min_value or the member is in the registry; a member below
\* min_value and not in the registry has no entry, and a member in the
\* registry has every one of their rows in their bundle.
C5_ThresholdExclusion ==
  \A t \in Traders :
    /\ t \in DOMAIN parsed =>
         parsed[t].points >= min_value \/ t \in DOMAIN unshipped0
    /\ (t \notin DOMAIN unshipped0
        /\ \A i \in RowsOf(t) : rows[i].member_points < min_value)
       => t \notin DOMAIN parsed
    /\ (t \in DOMAIN unshipped0 /\ RowsOf(t) # {}) =>
         /\ t \in DOMAIN parsed
         /\ Len(parsed[t].cards) = Cardinality(RowsOf(t))
         /\ {parsed[t].cards[k].href : k \in 1..Len(parsed[t].cards)} = RowsOf(t)

\* A page with two rows of a registered member below min_value, both kept,
\* and a row of an unregistered member below min_value, left out.
C5_Witness_BothCases ==
  \E t, u \in Traders :
    /\ t \in DOMAIN unshipped0 /\ u \notin DOMAIN unshipped0
    /\ Cardinality(RowsOf(t)) = 2 /\ Cardinality(RowsOf(u)) = 1
    /\ \A i \in 1..Len(rows) : rows[i].member_points < min_value
    /\ t \in DOMAIN parsed /\ Len(parsed[t].cards) = 2
    /\ u \notin DOMAIN parsed

\* ---- C6 ----------------------------------------------------------------
\* The rows of member t that build_trades_dict does not skip.
KeptRowsOf(t) ==
  {i \in RowsOf(t) :
     rows[i].member_points >= min_value \/ t \in DOMAIN unshipped0}

\* C6: every bundle's value is the sum of its cards' values, and its cards
\* are the non-skipped rows of its member, one card per row, in row order;
\* no row of another member is in it.
C6_Aggregation ==
  \A t \in DOMAIN parsed :
    LET cards == parsed[t].cards IN
    /\ parsed[t].value = SumValues(cards)
    /\ Len(cards) = Cardinality(KeptRowsOf(t))
    /\ \A k \in 1..Len(cards) :
         /\ cards[k].href \in KeptRowsOf(t)
         /\ cards[k].value = rows[cards[k].href].card_value
    /\ \A k, l \in 1..Len(cards) : k < l => cards[k].href < cards[l].href

\* A page whose rows of one member, of different values, lie around a row of
\* another member; both members have a bundle.
C6_Witness_Interleaved ==
  \E t, u \in DOMAIN parsed :
    /\ t # u
    /\ Len(parsed[t].cards) = 2
    /\ parsed[t].cards[1].href = 1 /\ parsed[t].cards[2].href = 3
    /\ parsed[t].cards[1].value # parsed[t].cards[2].value
    /\ parsed[u].cards[1].href = 2

\* ---- C7 ----------------------------------------------------------------
\* The members whose bundle has the highest value of the table.
MaxBundles ==
  {t \in DOMAIN parsed :
     \A u \in DOMAIN parsed : parsed[u].value <= parsed[t].value}

\* The place of member t in the dict's iteration order.
PlaceOf(t) == CHOOSE k \in 1..Len(hash_order) : hash_order[k] = t

\* C7 as claimed: of the bundles of highest value, the one chosen is the one
\* whose member came first in the rows.
C7_FirstInParseOrder ==
  highest # None =>
    \A t \in MaxBundles :
      parsed[highest].cards[1].href <= parsed[t].cards[1].href

\* C7 amended: of the bundles of highest value, the one chosen is the first
\* in the dict's iteration order, whatever the order of the rows; the choice
\* is fixed by the table and that order.
C7_FirstInDictOrder ==
  highest # None =>
    /\ highest \in MaxBundles
    /\ \A t \in MaxBundles : PlaceOf(highest) <= PlaceOf(t)

\* Two bundles share the highest value, at least min_value, and the one
\* chosen is the one whose member came later in the rows.
C7_Witness_TieLaterRow ==
  /\ highest # None
  /\ \E t \in MaxBundles :
       /\ t # highest
       /\ parsed[t].cards[1].href < parsed[highest].cards[1].href

C9_AddOnSet ==
  AddOnPhase =>
    /\ DOMAIN add_ons = (DOMAIN parsed \ {highest}) \cap DOMAIN unshipped
    /\ \A t \in DOMAIN add_ons : add_ons[t] = parsed[t]
    /\ \A k \in 1..Len(AddOnReturns) :
         /\ AddOnReturns[k].id \in DOMAIN add_ons
         /\ AddOnReturns[k].add_on
         /\ Len(AddOnReturns[k].cards) = Len(parsed[AddOnReturns[k].id].cards)
    /\ \A k, l \in 1..Len(AddOnReturns) :
         k # l => AddOnReturns[k].id # AddOnReturns[l].id
    /\ Len(stack) > 0 => stack[1].add_on /\ stack[1].id \in DOMAIN add_ons
    /\ pc = "sleep" =>
         {AddOnReturns[k].id : k \in 1..Len(AddOnReturns)} = DOMAIN add_ons

\* A cycle without a full load is over in which a bundle worth less than
\* min_value, of a registered member, was dispatched as an add-on after the
\* primary.
C9_Witness_LowValueAddOn ==
  /\ pc = "sleep"
  /\ ~full_load
  /\ PrimaryReturned
  /\ \E k \in 1..Len(AddOnReturns) :
       /\ parsed[AddOnReturns[k].id].value < min_value
       /\ AddOnReturns[k].add_on
       /\ AddOnReturns[k].success_count >= 1

\* ---- C10 ---------------------------------------------------------------
\* C10: within one dispatch the cards are attempted in non-increasing order
\* of value, cards of equal value in the order of their rows, and the cards
\* attempted are the bundle's.
C10_DispatchOrder ==
  /\ \A i, j \in 1..Len(attempts) :
       (i < j /\ attempts[i].id = attempts[j].id) =>
         /\ attempts[i].value >= attempts[j].value
         /\ attempts[i].value = attempts[j].value =>
              attempts[i].href < attempts[j].href
  /\ \A k \in 1..Len(attempts) :
       \E c \in 1..Len(parsed[attempts[k].id].cards) :
         parsed[attempts[k].id].cards[c] =
           [href |-> attempts[k].href, value |-> attempts[k].value]

\* A bundle of three cards whose rows have the values 1, 2, 1 has been
\* dispatched: the second row's card first, then the first, then the third.
C10_Witness_ThreeCards ==
  /\ Len(attempts) = 3
  /\ attempts[1].id = attempts[3].id
  /\ attempts[1].href = 2 /\ attempts[1].value = 2
  /\ attempts[2].href = 1 /\ attempts[2].value = 1
  /\ attempts[3].href = 3 /\ attempts[3].value = 1

\* ---- C11 ---------------------------------------------------------------
\* The hours to run are set and the time since START_TIME has reached them.
Expired == hours_to_run # 0 /\ now - START_TIME >= hours_to_run

\* C11: with hours to run set, a cycle begins only while the time since
\* START_TIME is below them; the process ends only at the head of the loop,
\* never from a step of a cycle, and the head of the loop is reached again
\* only from the sleep that ends a cycle.
C11_CheckedBetweenCycles ==
  [][ /\ (pc = "loop" /\ pc' \in {"reload", "find"}) => ~Expired
      /\ pc' = "terminated" => (pc = "loop" /\ Expired)
      /\ pc \in {"reload", "find", "primary", "addons", "sleep"} =>
           pc' # "terminated"
      /\ (pc' = "loop" /\ pc # "loop") => pc = "sleep" ]_vars

\* The hours ran out while a cycle was sending cards, and the cycle goes on.
C11_Witness_ExpiredMidCycle ==
  /\ Expired
  /\ pc \in {"primary", "addons"}
  /\ Len(attempts) >= 1
  /\ stack[1].i <= Len(stack[1].sorted_cards)

\* ---- C12 ---------------------------------------------------------------
\* C12: with hours to run set the process eventually ends its loop and
\* closes the browser; with none set it never does.
C12_EventuallyTerminated ==
  /\ hours_to_run # 0 => <>(pc = "terminated" /\ driver = "closed")
  /\ hours_to_run = 0 => [](pc # "terminated")

\* ---- C13 ---------------------------------------------------------------
\* C13: for a card sent with add_on set, the h3 of the page is never read.
C13_NoReasonForAddOn ==
  \A k \in 1..Len(attempts) :
    attempts[k].add_on =>
      ~\E c \in 1..Len(calls) :
         calls[c].op = "find_h3" /\ calls[c].href = attempts[k].href

\* ---- C14 ---------------------------------------------------------------
\* C14: a page with a malformed row is parsed all the same: nothing is
\* raised, and the trades are those of the well-formed rows.
C14_MalformedRowSkipped ==
  defects > 0 =>
    /\ raised # "build_trades_dict"
    /\ pc # "crashed"
    /\ parsed = build_trades_dict(rows, unshipped0)

\* ---- C15 ---------------------------------------------------------------
\* This cycle reloaded unshipped.
Reloaded == Len(events) >= 2 /\ events[2] = "reload"

\* C15: when the reload finds no filter input, it returns the empty
\* dictionary without raising, and find_trades is called with it.
C15_AbsentControlEmptyRegistry ==
  (Reloaded /\ ~active_page.present) =>
    /\ pc = "find" => (unshipped = <<>> /\ raised = "" /\ driver = "open")
    /\ pc # "find" => unshipped0 = <<>>
    /\ pc = "crashed" => raised \in {"build_trades_dict", "send_card"}

\* A cycle whose reload found no filter input went on to parse the page and
\* dispatch a bundle, and now sleeps.
C15_Witness_CycleGoesOn ==
  /\ Reloaded
  /\ ~active_page.present
  /\ pc = "sleep"
  /\ unshipped0 = <<>>
  /\ Len(returns) >= 1

\* ---- C16 ---------------------------------------------------------------
\* C16: every reload of unshipped sets LAST_UNSHIPPED_CHECK to the current
\* time, so that no reload is due right after one.
C16_EveryReloadSetsTimer ==
  [][ pc = "reload" =>
        /\ LAST_UNSHIPPED_CHECK' = now
        /\ ~(now' - LAST_UNSHIPPED_CHECK' >= unshipped_interval) ]_vars

\* ---- C17 ---------------------------------------------------------------
\* C17: a reload leaves in unshipped exactly the traders listed, and no
\* other step removes a key from it.
C17_ReloadReplaces ==
  [][ /\ pc = "reload" =>
           unshipped' = IF active_page'.present THEN active_page'.traders
                        ELSE <<>>
      /\ pc # "reload" => DOMAIN unshipped \subseteq DOMAIN unshipped' ]_vars

\* A reload has dropped a trader the dictionary held and the listing lacks.
C17_Witness_EntryDropped ==
  /\ Reloaded
  /\ pc = "find"
  /\ active_page.present
  /\ active_page.traders # <<>>
  /\ \E k \in DOMAIN unshipped0 : k \notin DOMAIN unshipped

\* ---- C18 ---------------------------------------------------------------
\* C18: find_trades loads the table fully exactly when add-ons are looked
\* for, the add-on interval has passed since LAST_ADD_ON_CHECK, and
\* unshipped is not empty.
C18_FullLoadIff ==
  [][ (pc = "find" /\ pc' # "find") =>
        (full_load' <=> /\ find_add_ons
                        /\ now - LAST_ADD_ON_CHECK >= addon_check_interval
                        /\ DOMAIN unshipped # {}) ]_vars

\* A cycle that loaded the table fully has dispatched a bundle.
C18_Witness_FullLoad ==
  /\ full_load
  /\ find_add_ons
  /\ unshipped0 # <<>>
  /\ Len(returns) >= 1

\* ---- C19 ---------------------------------------------------------------
\* C19: LAST_ADD_ON_CHECK changes only in find_trades when the table is
\* loaded fully, LAST_UNSHIPPED_CHECK only in the reload of unshipped, and
\* START_TIME never.
C19_TimersFrame ==
  [][ /\ START_TIME' = START_TIME
      /\ LAST_ADD_ON_CHECK' # LAST_ADD_ON_CHECK =>
           (pc = "find" /\ full_load' /\ LAST_ADD_ON_CHECK' = now)
      /\ (pc = "find" /\ ~full_load') => LAST_ADD_ON_CHECK' = LAST_ADD_ON_CHECK
      /\ LAST_UNSHIPPED_CHECK' # LAST_UNSHIPPED_CHECK =>
           (pc = "reload" /\ LAST_UNSHIPPED_CHECK' = now) ]_vars

\* Both timers have been advanced, and the cycle that last did so sleeps.
C19_Witness_BothAdvanced ==
  /\ pc = "sleep"
  /\ LAST_ADD_ON_CHECK >= addon_check_interval
  /\ LAST_UNSHIPPED_CHECK >= unshipped_interval
  /\ START_TIME = 0

\* ---- C20 ---------------------------------------------------------------
\* The steps of a cycle in the order main and find_trades take them.
StepOrder ==
  <<{"reload_due", "reload_not_due"}, {"reload"}, {"load"}, {"parse"},
    {"primary_start"}, {"primary_done"}, {"addons_selected"},
    {"addon_start", "addon_done"}>>

Rank(e) == CHOOSE i \in DOMAIN StepOrder : e \in StepOrder[i]

Happened(e) == \E i \in 1..Len(events) : events[i] = e

\* C20: the steps of a cycle come in their order: a reload that is due is
\* done before the page is loaded and parsed; the highest value bundle is
\* dispatched, its recipient tracked and the bundle popped before the add-on
\* bundles are found and before any card of another bundle is sent.
C20_CycleOrder ==
  /\ \A i, j \in 1..Len(events) :
       i < j => Rank(events[i]) <= Rank(events[j])
  /\ (Len(events) >= 2 /\ events[1] = "reload_due") => events[2] = "reload"
  /\ (highest # None /\ Happened("addons_selected")) =>
       /\ Happened("primary_done")
       /\ PrimaryReturned
       /\ highest \notin DOMAIN trades
  /\ \A k \in 1..Len(attempts) :
       (highest # None /\ attempts[k].id # highest) =>
         /\ Happened("addons_selected")
         /\ \A m \in k..Len(attempts) : attempts[m].id # highest

\* A cycle is over that reloaded unshipped, dispatched the highest value
\* bundle and then an add-on bundle.
C20_Witness_FullCycle ==
  /\ pc = "sleep"
  /\ Reloaded
  /\ Happened("primary_done")
  /\ Happened("addon_done")
  /\ Len(attempts) >= 2

====
